---- MODULE Spec2Model ----
(***************************************************************************)
(* The IPNS republisher (package republisher) and the keystore lookup it   *)
(* uses (package keystore).                                                *)
(*                                                                         *)
(* One Republisher, one goroutine in Run, and NumCallers goroutines that   *)
(* call AddName.  The keystore directory, the datastore and the process's  *)
(* own private key are the environment: they are drawn in Init and the     *)
(* republisher only reads them.                                            *)
(*                                                                         *)
(* Spec is the republisher with the clock at rest; TimedSpec lets the      *)
(* clock advance and draws rp.RecordLifetime; KsSeqSpec is the keystore    *)
(* with its calls made one at a time; KsSpec is the keystore with Put      *)
(* called from NumPutters goroutines at once.                              *)
(***************************************************************************)
EXTENDS Integers, FiniteSets, Sequences, TLC

\* ------------------------------------------------------------------ bounds

\* Timer ticks delivered during one behaviour.
MaxTicks == 2

\* Goroutines calling AddName.
NumCallers == 2

\* Goroutines calling the keystore.
NumPutters == 2

\* ------------------------------------------------------------- identities

\* peer.ID values that can be registered.
IDs == {"A", "B"}

\* Private keys.  BadKey is a key from which no identity can be derived.
PrivKeys == {"skA", "skB", "skS"}

BadKey == "skBad"

NoKey == "nokey"

NoID == "noid"

\* The identity of a private key: the hash of its public key.  "S" is an
\* identity nobody registers.
PubHash == ("skA" :> "A") @@ ("skB" :> "B") @@ ("skS" :> "S")

\* peer.IDFromPrivateKey: the identity of a private key, or an error.
IDFromPrivateKey(sk) ==
    IF sk \in PrivKeys
    THEN [id |-> PubHash[sk], err |-> "nil"]
    ELSE [id |-> NoID, err |-> "ErrIDFromKey"]

\* ---------------------------------------------------------------- keystore

\* File names in the keystore directory.
KeyNames == {"k1", "k2"}

\* What a file of the directory holds: nothing (no such file), bytes that
\* do not unmarshal, or a marshalled private key.
NoFile == "nofile"

BadFile == "badfile"

FileVals == {NoFile, BadFile, BadKey, "skA", "skB"}

\* The order in which the directory is read.
ListOrder == <<"k1", "k2">>

RECURSIVE Readdirnames(_, _)
Readdirnames(dir, i) ==
    IF i > Len(ListOrder) THEN <<>>
    ELSE IF dir[ListOrder[i]] # NoFile
         THEN <<ListOrder[i]>> \o Readdirnames(dir, i + 1)
         ELSE Readdirnames(dir, i + 1)

\* FSKeystore.List: the names of the files present.
List(dir) == Readdirnames(dir, 1)

\* Names a caller may pass that are not file names of the directory: the
\* empty name, a name with a slash, a name beginning with a period.
InvalidNames == {"", "a/b", ".k"}

\* validateName
validateName(name) ==
    IF name = "" THEN "ErrEmptyName"
    ELSE IF name = "a/b" THEN "ErrSlash"
    ELSE IF name = ".k" THEN "ErrPeriod"
    ELSE "nil"

\* An os.Stat that finds no file, whatever the directory holds.
StatNotExist(dir, name) == "ErrNotExist"

\* os.Stat(kp): nil when the file exists.
Stat(dir, name) == IF dir[name] = NoFile THEN "ErrNotExist" ELSE "nil"

\* FSKeystore.Has
Has(dir, name) == [has |-> Stat(dir, name) = "nil", err |-> "nil"]

\* A private key that cannot be marshalled.
NoBytesKey == "skNoBytes"

\* k.Bytes(): the marshalled key (written here as the key itself: the
\* value ci.UnmarshalPrivateKey gives the key back from), or an error.
Bytes(k) ==
    IF k = NoBytesKey THEN [b |-> BadFile, err |-> "ErrBytes"]
    ELSE [b |-> k, err |-> "nil"]

\* FSKeystore.Get: read and unmarshal one file.
Get(dir, name) ==
    IF validateName(name) # "nil" THEN [key |-> NoKey, err |-> validateName(name)]
    ELSE IF dir[name] = NoFile THEN [key |-> NoKey, err |-> "ErrNoSuchKey"]
    ELSE IF dir[name] = BadFile THEN [key |-> NoKey, err |-> "ErrUnmarshalKey"]
    ELSE [key |-> dir[name], err |-> "nil"]

\* A loop that gives up at the first file it cannot take a key and an
\* identity from.
RECURSIVE GetByIdLoopAborts(_, _, _, _, _)
GetByIdLoopAborts(dir, names, i, want, lastErr) ==
    IF i > Len(names)
    THEN [key |-> NoKey, err |-> "ErrNoSuchKey"]
    ELSE LET sk == Get(dir, names[i])
         IN  IF sk.err # "nil"
             THEN [key |-> NoKey, err |-> sk.err]
             ELSE LET id == IDFromPrivateKey(sk.key)
                  IN  IF id.err # "nil"
                      THEN [key |-> NoKey, err |-> id.err]
                      ELSE IF want = id.id
                           THEN [key |-> sk.key, err |-> "nil"]
                           ELSE GetByIdLoopAborts(dir, names, i + 1, want, lastErr)

RECURSIVE GetByIdLoop(_, _, _, _, _)
GetByIdLoop(dir, names, i, want, lastErr) ==
    IF i > Len(names)
    THEN IF lastErr = "nil"
         THEN [key |-> NoKey, err |-> "ErrNoSuchKey"]
         ELSE [key |-> NoKey, err |-> lastErr]
    ELSE LET sk == Get(dir, names[i])
         IN  IF sk.err # "nil"
             THEN GetByIdLoop(dir, names, i + 1, want, sk.err)
             ELSE LET id == IDFromPrivateKey(sk.key)
                  IN  IF id.err # "nil"
                      THEN GetByIdLoop(dir, names, i + 1, want, id.err)
                      ELSE IF want = id.id
                           THEN [key |-> sk.key, err |-> "nil"]
                           ELSE GetByIdLoop(dir, names, i + 1, want, lastErr)

\* FSKeystore.GetById: the first listed key whose identity is want.
GetById(dir, want) == GetByIdLoop(dir, List(dir), 1, want, "nil")

\* --------------------------------------------------------------- datastore

\* namesys.IpnsKeysForID and dshelp.NewKeyFromBinary: the datastore key
\* under which the last published record of an identity is cached.
IpnsKey(id) == <<"/ipns/", id>>

DsKeys == {IpnsKey(id) : id \in IDs}

\* What the datastore holds under a key.  A stored value is the marshalled
\* recpb.Record whose Value is the marshalled pb.IpnsEntry; Garbage are
\* bytes that do not unmarshal.  readable = FALSE: the value is stored but
\* reading it fails (an I/O error).
NotFound == [stored |-> FALSE]

Garbage == [kind |-> "garbage"]

Entry(path, seq) == [kind |-> "IpnsEntry", Value |-> path, Sequence |-> seq]

Record(value) == [kind |-> "Record", Value |-> value]

Stored(bytes, readable) == [stored |-> TRUE, readable |-> readable, bytes |-> bytes]

\* The record the publish path cached for an identity.
Published == ("A" :> Entry("/ipfs/abc", 3)) @@ ("B" :> Entry("/ipfs/xyz", 0))

DsVals(id) ==
    { NotFound,
      Stored(Garbage, TRUE),
      Stored(Record(Garbage), TRUE),
      Stored(Record(Published[id]), TRUE),
      Stored(Record(Published[id]), FALSE) }

\* ds.Datastore.Get
DsGet(store, k) ==
    IF ~store[k].stored THEN [val |-> Garbage, err |-> "ErrNotFound"]
    ELSE IF ~store[k].readable THEN [val |-> Garbage, err |-> "ErrIO"]
    ELSE [val |-> store[k].bytes, err |-> "nil"]

\* proto.Unmarshal
Unmarshal(bytes) ==
    IF bytes.kind = "garbage" THEN [msg |-> Garbage, err |-> "ErrUnmarshal"]
    ELSE [msg |-> bytes, err |-> "nil"]

\* getLastVal that takes only a not-found for "no entry" and hands every
\* other read failure to its caller.
getLastValNotFoundOnly(store, k) ==
    LET got == DsGet(store, k)
    IN  IF got.err = "ErrNotFound"
        THEN [p |-> "", seq |-> 0, err |-> "errNoEntry"]
        ELSE IF got.err # "nil"
        THEN [p |-> "", seq |-> 0, err |-> got.err]
        ELSE LET dhtrec == Unmarshal(got.val)
             IN  IF dhtrec.err # "nil"
                 THEN [p |-> "", seq |-> 0, err |-> dhtrec.err]
                 ELSE LET e == Unmarshal(dhtrec.msg.Value)
                      IN  IF e.err # "nil"
                          THEN [p |-> "", seq |-> 0, err |-> e.err]
                          ELSE [p |-> e.msg.Value, seq |-> e.msg.Sequence, err |-> "nil"]

\* getLastVal that hands the datastore's error to its caller.
getLastValGetErr(store, k) ==
    LET got == DsGet(store, k)
    IN  IF got.err # "nil"
        THEN [p |-> "", seq |-> 0, err |-> got.err]
        ELSE LET dhtrec == Unmarshal(got.val)
             IN  IF dhtrec.err # "nil"
                 THEN [p |-> "", seq |-> 0, err |-> dhtrec.err]
                 ELSE LET e == Unmarshal(dhtrec.msg.Value)
                      IN  IF e.err # "nil"
                          THEN [p |-> "", seq |-> 0, err |-> e.err]
                          ELSE [p |-> e.msg.Value, seq |-> e.msg.Sequence, err |-> "nil"]

\* getLastVal that returns the sequence number of the next publication.
getLastValNextSeq(store, k) ==
    LET got == DsGet(store, k)
    IN  IF got.err # "nil"
        THEN [p |-> "", seq |-> 0, err |-> "errNoEntry"]
        ELSE LET dhtrec == Unmarshal(got.val)
             IN  IF dhtrec.err # "nil"
                 THEN [p |-> "", seq |-> 0, err |-> dhtrec.err]
                 ELSE LET e == Unmarshal(dhtrec.msg.Value)
                      IN  IF e.err # "nil"
                          THEN [p |-> "", seq |-> 0, err |-> e.err]
                          ELSE [p |-> e.msg.Value, seq |-> e.msg.Sequence + 1, err |-> "nil"]

\* Republisher.getLastVal: payload and sequence number of the cached record.
getLastVal(store, k) ==
    LET got == DsGet(store, k)
    IN  IF got.err # "nil"
        THEN [p |-> "", seq |-> 0, err |-> "errNoEntry"]
        ELSE LET dhtrec == Unmarshal(got.val)
             IN  IF dhtrec.err # "nil"
                 THEN [p |-> "", seq |-> 0, err |-> dhtrec.err]
                 ELSE LET e == Unmarshal(dhtrec.msg.Value)
                      IN  IF e.err # "nil"
                          THEN [p |-> "", seq |-> 0, err |-> e.err]
                          ELSE [p |-> e.msg.Value, seq |-> e.msg.Sequence, err |-> "nil"]

\* ------------------------------------------------------------- republisher

VARIABLES
    entries,      \* rp.entries: the watch set
    entrylock,    \* rp.entrylock: 0 when free, else the caller holding it
    self,         \* rp.self
    ks,           \* rp.ks: the keystore directory
    ds,           \* rp.ds: the local datastore
    closing,      \* proc.Closing() is closed
    tickPending,  \* a tick is waiting in tick.C
    ticks,        \* ticks delivered to tick.C
    runPc,        \* where Run is: "select", "range", "putting", "stopped", "fatal"
    passes,       \* calls of republishEntries
    returns,      \* returns of republishEntries
    passStart,    \* rp.entries when the range loop of the current pass began
    attempted,    \* identities the current (or last) pass has ranged over, in order
    lookups,      \* identities the current (or last) pass called ks.GetById for
    puts,         \* calls of PutRecordToRouting of the current (or last) pass
    lastErr,      \* what the last pass returned; "none" before the first return
    pc,           \* per AddName caller: "idle" or "writing"
    arg,          \* per AddName caller: the identity of its current call
    snap,         \* per AddName caller: the map its assignment started from
    returned,     \* identities of the AddName calls that have returned
    now,          \* time.Now(), in hours since construction
    lifetime,     \* rp.RecordLifetime, in hours
    passAt,       \* time.Now() when the current (or last) pass was called
    kpc,          \* per keystore client: "idle", or where its Put is: "create", "write"
    kname,        \* per keystore client: the name of its Put
    kkey,         \* per keystore client: the key of its Put
    first,        \* per name: the key of the first Put that returned nil since
                  \* the file was last removed, NoKey if none
    wins,         \* per name: the Puts that returned nil since the file was last removed
    lastCall      \* the keystore call that returned last, with what it returned

vars == <<entries, entrylock, self, ks, ds, closing, tickPending, ticks, runPc,
          passes, returns, passStart, attempted, lookups, puts, lastErr, pc, arg, snap,
          returned, now, lifetime, passAt, kpc, kname, kkey, first, wins, lastCall>>

ksVars == <<kpc, kname, kkey, first, wins, lastCall>>

\* What no step of Run or AddName changes.
envVars == <<self, ks, ds, now, lifetime, ksVars>>

runVars == <<runPc, passes, returns, passStart, passAt, attempted, lookups, puts,
             lastErr>>

addVars == <<entries, entrylock, pc, arg, snap, returned>>

Callers == 1..NumCallers

\* The goroutines that call the keystore.
Putters == 1..NumPutters

\* A keystore call that has returned: op(name, key) or op(want) returned
\* key, has or names, and err.
Call(op, name, key, want, has, names, err) ==
    [op |-> op, name |-> name, key |-> key, want |-> want, has |-> has,
     names |-> names, err |-> err]

\* No keystore call has been made.
KsNew ==
    /\ kpc = [c \in Putters |-> "idle"]
    /\ kname = [c \in Putters |-> ""]
    /\ kkey = [c \in Putters |-> NoKey]
    /\ first = [n \in KeyNames |-> NoKey]
    /\ wins = [n \in KeyNames |-> 0]
    /\ lastCall = Call("none", "", NoKey, NoID, FALSE, <<>>, "nil")

Range(s) == {s[i] : i \in 1..Len(s)}

\* The process has not been aborted by the runtime.
Alive == runPc # "fatal"

\* DefaultRecordLifetime = 24 * time.Hour
DefaultRecordLifetime == 24

\* The private keys the process may be configured with: the key of a
\* registered identity, the key of an identity nobody registers, or a key
\* from which no identity can be derived.
SelfKeys == {"skA", "skS", BadKey}

\* The keystore directories a behaviour may start from.
KeyDirs == {d \in [KeyNames -> FileVals] : d["k2"] \in {NoFile, "skB"}}

\* NewRepublisher, with the environment the republisher is constructed over.
Init ==
    /\ entries = {}
    /\ entrylock = 0
    /\ self \in SelfKeys
    /\ ks \in KeyDirs
    /\ ds \in {f \in [DsKeys -> UNION {DsVals(id) : id \in IDs}] :
                 \A id \in IDs : f[IpnsKey(id)] \in DsVals(id)}
    /\ closing = FALSE
    /\ tickPending = FALSE
    /\ ticks = 0
    /\ runPc = "select"
    /\ passes = 0
    /\ returns = 0
    /\ passStart = {}
    /\ attempted = <<>>
    /\ lookups = {}
    /\ puts = <<>>
    /\ lastErr = "none"
    /\ pc = [c \in Callers |-> "idle"]
    /\ arg = [c \in Callers |-> NoID]
    /\ snap = [c \in Callers |-> {}]
    /\ returned = {}
    /\ now = 0
    /\ lifetime = DefaultRecordLifetime
    /\ passAt = 0
    /\ KsNew

\* ---- AddName

\* A Lock that does not wait for the holder to unlock.
LockNoWait(c) == entrylock' = c

\* rp.entrylock.Lock()
Lock(c) == entrylock = 0 /\ entrylock' = c

\* rp.entrylock.Unlock()
Unlock(c) == entrylock' = 0

\* An assignment that replaces the map by one holding only id.
MapReplace(m, id) == {id}

\* rp.entries[id] = struct{}{}: id becomes a key of the map; the keys the
\* map has stay.
MapAssign(m, id) == m \cup {id}

\* AddName up to the start of the map assignment: the lock is taken and the
\* assignment has begun (the map is marked as being written).
AddNameBegin(c, id) ==
    /\ Alive
    /\ pc[c] = "idle"
    /\ Lock(c)
    /\ pc' = [pc EXCEPT ![c] = "writing"]
    /\ arg' = [arg EXCEPT ![c] = id]
    /\ snap' = [snap EXCEPT ![c] = entries]
    /\ UNCHANGED <<entries, returned>>
    /\ UNCHANGED <<envVars, runVars, closing, tickPending, ticks>>

\* The map assignment completes, the deferred Unlock runs, AddName returns.
AddNameEnd(c) ==
    /\ Alive
    /\ pc[c] = "writing"
    /\ entries' = MapAssign(snap[c], arg[c])
    /\ Unlock(c)
    /\ returned' = returned \cup {arg[c]}
    /\ pc' = [pc EXCEPT ![c] = "idle"]
    /\ arg' = [arg EXCEPT ![c] = NoID]
    /\ snap' = [snap EXCEPT ![c] = {}]
    /\ UNCHANGED <<envVars, runVars, closing, tickPending, ticks>>

\* ---- the environment of Run

\* The ticker delivers a tick to tick.C (a tick the channel has no room
\* for is dropped).
Tick ==
    /\ runPc \notin {"stopped", "fatal"}
    /\ ticks < MaxTicks
    /\ ~tickPending
    /\ tickPending' = TRUE
    /\ ticks' = ticks + 1
    /\ UNCHANGED <<envVars, runVars, addVars, closing>>

\* The process is asked to close: proc.Closing() is closed.
Close ==
    /\ Alive
    /\ ~closing
    /\ closing' = TRUE
    /\ UNCHANGED <<envVars, runVars, addVars, tickPending, ticks>>

\* ---- republishEntries

\* A key resolution that asks the keystore for every identity.
ResolveKeyNoShortcut(selfKey, dir, id) ==
    LET selfId == IDFromPrivateKey(selfKey)
    IN  IF selfId.err # "nil"
        THEN [priv |-> NoKey, err |-> selfId.err, lookup |-> FALSE]
        ELSE LET got == GetById(dir, id)
             IN  [priv |-> got.key, err |-> got.err, lookup |-> TRUE]

\* The key a pass signs the record of id with (lines 90-102).
ResolveKey(selfKey, dir, id) ==
    LET selfId == IDFromPrivateKey(selfKey)
    IN  IF selfId.err # "nil"
        THEN [priv |-> NoKey, err |-> selfId.err, lookup |-> FALSE]
        ELSE IF id = selfId.id
             THEN [priv |-> selfKey, err |-> "nil", lookup |-> FALSE]
             ELSE LET got == GetById(dir, id)
                  IN  [priv |-> got.key, err |-> got.err, lookup |-> TRUE]

\* A loop body that goes on to the next identity when no key is found.
BodySkipsKeyErr(selfKey, dir, store, id) ==
    LET kr == ResolveKey(selfKey, dir, id)
        lv == getLastVal(store, IpnsKey(id))
    IN  IF kr.err # "nil"
        THEN [do |-> "continue", err |-> "nil", lookup |-> kr.lookup,
              load |-> FALSE, priv |-> NoKey, p |-> "", seq |-> 0]
        ELSE IF lv.err # "nil"
        THEN [do |-> "continue", err |-> "nil", lookup |-> kr.lookup,
              load |-> TRUE, priv |-> kr.priv, p |-> "", seq |-> 0]
        ELSE [do |-> "put", err |-> "nil", lookup |-> kr.lookup,
              load |-> TRUE, priv |-> kr.priv, p |-> lv.p, seq |-> lv.seq]

\* A loop body that goes on to the next identity when the cached record
\* does not decode.
BodySkipsDecodeErr(selfKey, dir, store, id) ==
    LET kr == ResolveKey(selfKey, dir, id)
        lv == getLastVal(store, IpnsKey(id))
    IN  IF kr.err # "nil"
        THEN [do |-> "return", err |-> kr.err, lookup |-> kr.lookup,
              load |-> FALSE, priv |-> NoKey, p |-> "", seq |-> 0]
        ELSE IF lv.err # "nil"
        THEN [do |-> "continue", err |-> "nil", lookup |-> kr.lookup,
              load |-> TRUE, priv |-> kr.priv, p |-> "", seq |-> 0]
        ELSE [do |-> "put", err |-> "nil", lookup |-> kr.lookup,
              load |-> TRUE, priv |-> kr.priv, p |-> lv.p, seq |-> lv.seq]

\* One iteration of the range loop for id, up to the call of
\* PutRecordToRouting: what the iteration does next ("return", "continue"
\* or "put") and with what.
Body(selfKey, dir, store, id) ==
    LET kr == ResolveKey(selfKey, dir, id)
        lv == getLastVal(store, IpnsKey(id))
    IN  IF kr.err # "nil"
        THEN [do |-> "return", err |-> kr.err, lookup |-> kr.lookup,
              load |-> FALSE, priv |-> NoKey, p |-> "", seq |-> 0]
        ELSE IF lv.err = "errNoEntry"
        THEN [do |-> "continue", err |-> "nil", lookup |-> kr.lookup,
              load |-> TRUE, priv |-> kr.priv, p |-> "", seq |-> 0]
        ELSE IF lv.err # "nil"
        THEN [do |-> "return", err |-> lv.err, lookup |-> kr.lookup,
              load |-> TRUE, priv |-> kr.priv, p |-> "", seq |-> 0]
        ELSE [do |-> "put", err |-> "nil", lookup |-> kr.lookup,
              load |-> TRUE, priv |-> kr.priv, p |-> lv.p, seq |-> lv.seq]

\* A Run that returns when a pass fails.
AfterPassGivesUp(err) == IF err = "nil" THEN "select" ELSE "stopped"

\* Where Run is after republishEntries has returned err (lines 74-77).
AfterPass(err) == "select"

\* An expiry computed from the time the pass was called.
EolAtPassStart(t, d) == passAt + d

\* eol := time.Now().Add(rp.RecordLifetime), for time.Now() = t and
\* rp.RecordLifetime = d.
Eol(t, d) == t + d

\* The done field of a push that has not returned.
NoTime == 0 - 1

\* A range loop that goes on from where the loop of the pass before was.
RangeResume(prev) == prev

\* for id := range rp.entries: the identities the loop has yielded when it
\* begins, whatever the loop of the pass before (prev) had yielded.
RangeBegin(prev) == <<>>

\* A receive that does not wait for a tick (a select with a default case).
TickNoWait == tickPending' = FALSE

\* A receive that leaves the tick in the channel.
TickPeek == tickPending /\ tickPending' = tickPending

\* case <-tick.C: the pending tick is taken from the channel.
TickRecv == tickPending /\ tickPending' = FALSE

\* Run receives from tick.C and calls republishEntries, which begins to
\* range over rp.entries.
RunTick ==
    /\ runPc = "select"
    /\ TickRecv
    /\ runPc' = "range"
    /\ passes' = passes + 1
    /\ returns' = returns
    /\ passStart' = entries
    /\ passAt' = now
    /\ attempted' = RangeBegin(attempted)
    /\ lookups' = {}
    /\ puts' = <<>>
    /\ UNCHANGED <<lastErr, envVars, addVars, closing, ticks>>

\* Run receives from proc.Closing() and returns.
RunClosing ==
    /\ runPc = "select"
    /\ closing
    /\ runPc' = "stopped"
    /\ UNCHANGED <<passes, returns, passStart, passAt, attempted, lookups, puts, lastErr>>
    /\ UNCHANGED <<envVars, addVars, closing, tickPending, ticks>>

\* The range loop yields the next identity and the loop body runs for it.
\* The map is read without rp.entrylock: an entry added since the loop
\* began may be yielded too.
RangeNext(id) ==
    /\ runPc = "range"
    /\ id \in entries \ Range(attempted)
    /\ LET b == Body(self, ks, ds, id)
       IN  /\ attempted' = Append(attempted, id)
           /\ lookups' = IF b.lookup THEN lookups \cup {id} ELSE lookups
           /\ CASE b.do = "return" ->
                     /\ runPc' = AfterPass(b.err)
                     /\ lastErr' = b.err
                     /\ returns' = returns + 1
                     /\ puts' = puts
                [] b.do = "continue" ->
                     /\ UNCHANGED <<runPc, lastErr, returns, puts>>
                [] b.do = "put" ->
                     /\ runPc' = "putting"
                     /\ puts' = Append(puts, [id |-> id, priv |-> b.priv, p |-> b.p,
                                              seq |-> b.seq, res |-> "pending",
                                              eol |-> Eol(now, lifetime),
                                              at |-> now, done |-> NoTime])
                     /\ UNCHANGED <<lastErr, returns>>
    /\ UNCHANGED <<passes, passStart, passAt>>
    /\ UNCHANGED <<envVars, addVars, closing, tickPending, ticks>>

\* The range loop ends and republishEntries returns nil.  Entries added
\* since the loop began may have been skipped.
RangeDone ==
    /\ runPc = "range"
    /\ passStart \subseteq Range(attempted)
    /\ runPc' = AfterPass("nil")
    /\ lastErr' = "nil"
    /\ returns' = returns + 1
    /\ UNCHANGED <<passes, passStart, passAt, attempted, lookups, puts>>
    /\ UNCHANGED <<envVars, addVars, closing, tickPending, ticks>>

\* The range loop reads the map while an AddName is assigning to it: the
\* runtime may detect the concurrent map iteration and map write and abort
\* the process.
RangeFatal ==
    /\ runPc = "range"
    /\ \E c \in Callers : pc[c] = "writing"
    /\ runPc' = "fatal"
    /\ UNCHANGED <<passes, returns, passStart, passAt, attempted, lookups, puts, lastErr>>
    /\ UNCHANGED <<envVars, addVars, closing, tickPending, ticks>>

\* PutRecordToRouting returns: nil, or an error (which the cancelled
\* context of a closing process makes it do).
PutReturn(err) ==
    /\ runPc = "putting"
    /\ puts' = [puts EXCEPT ![Len(puts)].res = err, ![Len(puts)].done = now]
    /\ IF err = "nil"
       THEN runPc' = "range" /\ UNCHANGED <<lastErr, returns>>
       ELSE runPc' = AfterPass(err) /\ lastErr' = err /\ returns' = returns + 1
    /\ UNCHANGED <<passes, passStart, passAt, attempted, lookups>>
    /\ UNCHANGED <<envVars, addVars, closing, tickPending, ticks>>

RunNext ==
    \/ RunTick
    \/ RunClosing
    \/ \E id \in IDs : RangeNext(id)
    \/ RangeDone
    \/ RangeFatal
    \/ \E err \in {"nil", "ErrPut"} : PutReturn(err)

Next ==
    \/ \E c \in Callers, id \in IDs : AddNameBegin(c, id)
    \/ \E c \in Callers : AddNameEnd(c)
    \/ Tick
    \/ Close
    \/ RunNext

Spec == Init /\ [][Next]_vars

\* ---- the republisher with a clock that advances and a configured lifetime

\* The last hour the clock reaches.
MaxTime == 3

\* The values rp.RecordLifetime is configured with before Run is called.
Lifetimes == {0, 1, DefaultRecordLifetime}

\* An hour passes.
Elapse ==
    /\ now < MaxTime
    /\ now' = now + 1
    /\ UNCHANGED <<self, ks, ds, lifetime, ksVars, runVars, addVars, closing,
                   tickPending, ticks>>

\* A republisher for the key of "A", with the key of "B" in the keystore
\* and the records of both cached.
TimedInit ==
    /\ entries = {}
    /\ entrylock = 0
    /\ self = "skA"
    /\ ks = [n \in KeyNames |-> IF n = "k1" THEN "skB" ELSE NoFile]
    /\ ds = [k \in DsKeys |-> Stored(Record(Published[k[2]]), TRUE)]
    /\ closing = FALSE
    /\ tickPending = FALSE
    /\ ticks = 0
    /\ runPc = "select"
    /\ passes = 0
    /\ returns = 0
    /\ passStart = {}
    /\ attempted = <<>>
    /\ lookups = {}
    /\ puts = <<>>
    /\ lastErr = "none"
    /\ pc = [c \in Callers |-> "idle"]
    /\ arg = [c \in Callers |-> NoID]
    /\ snap = [c \in Callers |-> {}]
    /\ returned = {}
    /\ now = 0
    /\ lifetime \in Lifetimes
    /\ passAt = 0
    /\ KsNew

TimedNext ==
    \/ Next
    \/ Elapse

TimedSpec == TimedInit /\ [][TimedNext]_vars

\* ---- the keystore

\* The names and keys Put is called with, the identities GetById is asked for.
PutNames == KeyNames \cup InvalidNames

PutKeys == {"skA", "skB", NoBytesKey}

Wants == IDs \cup {"S"}

\* What no keystore call changes.
rpVars == <<self, ds, now, lifetime, runVars, addVars, closing, tickPending, ticks>>

\* No keystore call is in progress.
NoCall == \A c \in Putters : kpc[c] = "idle"

\* A call that changes nothing returns.
Returns(call) ==
    /\ lastCall' = call
    /\ UNCHANGED <<ks, kpc, kname, kkey, first, wins>>
    /\ UNCHANGED rpVars

\* Put up to os.Stat: it returns the error of validateName or of k.Bytes(),
\* or ErrKeyExists when the file exists, or goes on to os.Create.
PutStat(c, name, k) ==
    /\ kpc[c] = "idle"
    /\ IF validateName(name) # "nil"
       THEN Returns(Call("Put", name, k, NoID, FALSE, <<>>, validateName(name)))
       ELSE IF Bytes(k).err # "nil"
       THEN Returns(Call("Put", name, k, NoID, FALSE, <<>>, Bytes(k).err))
       ELSE IF Stat(ks, name) = "nil"
       THEN Returns(Call("Put", name, k, NoID, FALSE, <<>>, "ErrKeyExists"))
       ELSE /\ kpc' = [kpc EXCEPT ![c] = "create"]
            /\ kname' = [kname EXCEPT ![c] = name]
            /\ kkey' = [kkey EXCEPT ![c] = k]
            /\ UNCHANGED <<ks, first, wins, lastCall>>
            /\ UNCHANGED rpVars

\* os.Create(kp): the file is created, or truncated if it exists; it is
\* empty, which does not unmarshal.
PutCreate(c) ==
    /\ kpc[c] = "create"
    /\ ks' = [ks EXCEPT ![kname[c]] = BadFile]
    /\ kpc' = [kpc EXCEPT ![c] = "write"]
    /\ UNCHANGED <<kname, kkey, first, wins, lastCall>>
    /\ UNCHANGED rpVars

\* fi.Write(b), the deferred fi.Close(), and Put returns nil.
PutWrite(c) ==
    /\ kpc[c] = "write"
    /\ ks' = [ks EXCEPT ![kname[c]] = Bytes(kkey[c]).b]
    /\ first' = IF first[kname[c]] = NoKey
                THEN [first EXCEPT ![kname[c]] = kkey[c]]
                ELSE first
    /\ wins' = [wins EXCEPT ![kname[c]] = @ + 1]
    /\ lastCall' = Call("Put", kname[c], kkey[c], NoID, FALSE, <<>>, "nil")
    /\ kpc' = [kpc EXCEPT ![c] = "idle"]
    /\ kname' = [kname EXCEPT ![c] = ""]
    /\ kkey' = [kkey EXCEPT ![c] = NoKey]
    /\ UNCHANGED rpVars

\* FSKeystore.Delete
Delete(name) ==
    IF validateName(name) # "nil"
    THEN Returns(Call("Delete", name, NoKey, NoID, FALSE, <<>>, validateName(name)))
    ELSE IF Stat(ks, name) # "nil"
    THEN Returns(Call("Delete", name, NoKey, NoID, FALSE, <<>>, Stat(ks, name)))
    ELSE /\ ks' = [ks EXCEPT ![name] = NoFile]
         /\ first' = [first EXCEPT ![name] = NoKey]
         /\ wins' = [wins EXCEPT ![name] = 0]
         /\ lastCall' = Call("Delete", name, NoKey, NoID, FALSE, <<>>, "nil")
         /\ UNCHANGED <<kpc, kname, kkey>>
         /\ UNCHANGED rpVars

\* Calls of Get, Has, List and GetById.
KsGet(name) ==
    Returns(Call("Get", name, Get(ks, name).key, NoID, FALSE, <<>>, Get(ks, name).err))

KsHas(name) ==
    Returns(Call("Has", name, NoKey, NoID, Has(ks, name).has, <<>>, Has(ks, name).err))

KsList == Returns(Call("List", "", NoKey, NoID, FALSE, List(ks), "nil"))

KsGetById(want) ==
    Returns(Call("GetById", "", GetById(ks, want).key, want, FALSE, <<>>,
                 GetById(ks, want).err))

\* A keystore over a directory with any files, next to a republisher that
\* is not run.
KsInit ==
    /\ entries = {}
    /\ entrylock = 0
    /\ self = "skA"
    /\ ks \in [KeyNames -> FileVals]
    /\ ds = [k \in DsKeys |-> Stored(Record(Published[k[2]]), TRUE)]
    /\ closing = FALSE
    /\ tickPending = FALSE
    /\ ticks = 0
    /\ runPc = "select"
    /\ passes = 0
    /\ returns = 0
    /\ passStart = {}
    /\ attempted = <<>>
    /\ lookups = {}
    /\ puts = <<>>
    /\ lastErr = "none"
    /\ pc = [c \in Callers |-> "idle"]
    /\ arg = [c \in Callers |-> NoID]
    /\ snap = [c \in Callers |-> {}]
    /\ returned = {}
    /\ now = 0
    /\ lifetime = DefaultRecordLifetime
    /\ passAt = 0
    /\ KsNew

\* The keystore's calls made one at a time: a call begins when no call is
\* in progress.
KsSeqNext ==
    \/ \E c \in Putters, name \in PutNames, k \in PutKeys : NoCall /\ PutStat(c, name, k)
    \/ \E c \in Putters : PutCreate(c)
    \/ \E c \in Putters : PutWrite(c)
    \/ \E name \in PutNames : NoCall /\ Delete(name)
    \/ \E name \in PutNames : NoCall /\ KsGet(name)
    \/ \E name \in KeyNames : NoCall /\ KsHas(name)
    \/ NoCall /\ KsList
    \/ \E want \in Wants : NoCall /\ KsGetById(want)

KsSeqSpec == KsInit /\ [][KsSeqNext]_vars

\* Put called from several goroutines at once, with Get.
KsNext ==
    \/ \E c \in Putters, name \in PutNames, k \in PutKeys : PutStat(c, name, k)
    \/ \E c \in Putters : PutCreate(c)
    \/ \E c \in Putters : PutWrite(c)
    \/ \E name \in PutNames : KsGet(name)

KsSpec == KsInit /\ [][KsNext]_vars

\* The goroutine in Run is scheduled fairly and every call it makes returns;
\* a select with both channels ready takes either, so the closing case is
\* taken if it is ready again and again.
FairSpec == Spec /\ WF_vars(RunNext) /\ SF_vars(RunClosing)

\* ------------------------------------------------------------------ claims

\* republishEntries has returned and no later pass has begun: attempted,
\* lookups, puts and lastErr are those of the pass that returned last.
PassReturned == runPc \in {"select", "stopped"} /\ returns > 0

InPass == runPc \in {"range", "putting"}

\* The calls of PutRecordToRouting the pass has made for id.
PutsFor(id) == {j \in 1..Len(puts) : puts[j].id = id}

HasRecord(id) == ds[IpnsKey(id)].stored

\* C1: every identity a pass attempts was in the watch set when the pass
\* started; an identity registered after the start is not attempted in
\* that pass.
C1_AttemptedFixedAtStart == Range(attempted) \subseteq passStart

\* C2: no AddName writes the watch set while a pass is ranging over it.
C2_NoWriteDuringRange == ~(InPass /\ \E c \in Callers : pc[c] = "writing")

\* C3: the identity of every AddName call that has returned is in the
\* watch set, whatever the interleaving of the calls.
C3_NoLostEntry == returned \subseteq entries

\* AddName has returned for every identity, and every identity is present.
C3_Witness == returned = IDs /\ entries = IDs /\ \A c \in Callers : pc[c] = "idle"

\* The error the keystore lookup of a pass returned for id, "nil" if none.
LookupErr(id) == IF id \in lookups THEN GetById(ks, id).err ELSE "nil"

\* C4: when ks.GetById fails for an identity that is not the process's own,
\* the pass returns that error at once: the identity is the last one the
\* pass attempts, and nothing is pushed for it.
C4_FailFastOnKeyError ==
    \A i \in 1..Len(attempted) :
        LookupErr(attempted[i]) # "nil" =>
            /\ i = Len(attempted)
            /\ PassReturned
            /\ lastErr = LookupErr(attempted[i])
            /\ PutsFor(attempted[i]) = {}

\* A pass over both identities stopped at the first, whose key is not in
\* the keystore, although the second has a key and a cached record.
C4_Witness ==
    \E a, b \in IDs :
        /\ a # b
        /\ passStart = {a, b}
        /\ attempted = <<a>>
        /\ LookupErr(a) # "nil"
        /\ PassReturned
        /\ ResolveKey(self, ks, b).err = "nil"
        /\ getLastVal(ds, IpnsKey(b)).err = "nil"

\* The pass returned an error at the identity it attempted last.
FailedAt(i) == PassReturned /\ lastErr # "nil" /\ i = Len(attempted)

\* C5 as stated: an attempted identity with no cached record gets no push
\* and the pass returns no error at it.
C5_MissingRecordNoError ==
    \A i \in 1..Len(attempted) :
        ~HasRecord(attempted[i]) => PutsFor(attempted[i]) = {} /\ ~FailedAt(i)

\* C5 as amended: an attempted identity with no cached record whose signing
\* key is resolved gets no push and the pass returns no error at it.
C5_MissingRecordNoErrorIfKey ==
    \A i \in 1..Len(attempted) :
        (~HasRecord(attempted[i]) /\ ResolveKey(self, ks, attempted[i]).err = "nil")
            => PutsFor(attempted[i]) = {} /\ ~FailedAt(i)

\* A pass over an identity with a key and no cached record returned nil.
C5_Witness ==
    /\ PassReturned
    /\ lastErr = "nil"
    /\ \E i \in 1..Len(attempted) :
          ~HasRecord(attempted[i]) /\ ResolveKey(self, ks, attempted[i]).err = "nil"

\* C6: every call of PutRecordToRouting carries the payload and the
\* sequence number of the record cached for its identity.
C6_PutCarriesCachedRecord ==
    \A j \in 1..Len(puts) :
        LET rec == ds[IpnsKey(puts[j].id)]
        IN  /\ rec.stored
            /\ rec.bytes.kind = "Record"
            /\ rec.bytes.Value.kind = "IpnsEntry"
            /\ puts[j].p = rec.bytes.Value.Value
            /\ puts[j].seq = rec.bytes.Value.Sequence

\* The second pass has pushed the record of an identity.
C6_Witness == passes = 2 /\ \E j \in 1..Len(puts) : puts[j].res = "nil"

\* C7: when a pass returns nil, every identity of the watch set at its
\* start that has a cached record got exactly one push, which succeeded,
\* and no identity without a cached record got a push.
C7_FullSuccess ==
    (PassReturned /\ lastErr = "nil") =>
        /\ \A id \in passStart :
              HasRecord(id) =>
                  /\ Cardinality(PutsFor(id)) = 1
                  /\ \A j \in PutsFor(id) : puts[j].res = "nil"
        /\ \A id \in IDs : ~HasRecord(id) => PutsFor(id) = {}

\* C8: Run returns only when the process is closing, and a pass that
\* returns (an error or nil) leaves Run at its select.
C8_OnlyClosingStops ==
    [][ /\ runPc' = "stopped" => closing'
        /\ (InPass /\ returns' > returns) => runPc' = "select" ]_vars

\* A pass has returned an error and Run is at its select, not closing.
C8_Witness == runPc = "select" /\ returns > 0 /\ lastErr \notin {"nil", "none"} /\ ~closing

\* C9: passes do not overlap (a pass has returned before the next is
\* called) and there are no more passes than ticks.
C9_OnePassPerTick ==
    /\ passes <= ticks
    /\ passes - returns \in {0, 1}
    /\ passes - returns = 1 <=> runPc \in {"range", "putting", "fatal"}

\* The second pass is in flight after two ticks.
C9_Witness == passes = 2 /\ returns = 1 /\ InPass /\ ticks = 2

\* C10: once the process is closing, Run returns.  Stated on finite runs:
\* while the process is closing, Run has returned or has a step to take.
C10_ShutdownHonoured == closing => (runPc = "stopped" \/ ENABLED RunNext)

\* C10 as a property of whole behaviours, for FairSpec.
C10_EventuallyStopped == closing ~> (runPc = "stopped")

\* C11 as stated: once the process is closing and Run is at its select,
\* the next step of Run is to return; it starts no pass.
C11_ClosingThenExit ==
    [][ (closing /\ runPc = "select") => runPc' \in {"select", "stopped"} ]_vars

\* C11 as amended: no pass starts once Run has returned, and while the
\* process is closing Run starts a pass from its select only for a tick
\* that is pending in tick.C.
C11_NoPassAfterStopped ==
    [][ /\ runPc = "stopped" => (runPc' = "stopped" /\ passes' = passes)
        /\ (closing /\ runPc = "select" /\ ~tickPending)
              => runPc' \in {"select", "stopped"} ]_vars

\* Run has returned although a tick was pending in tick.C: no pass was
\* started for it.
C11_Witness == runPc = "stopped" /\ tickPending /\ passes < ticks

\* The identity of the process's own key (NoID if none can be derived).
SelfId == IDFromPrivateKey(self).id

\* C12: for the process's own identity a pass calls no ks.GetById, signs
\* with rp.self, and fails only on the record or the push, never on the
\* keystore.
C12_OwnIdentityShortcut ==
    \A i \in 1..Len(attempted) :
        attempted[i] = SelfId =>
            /\ attempted[i] \notin lookups
            /\ \A j \in PutsFor(attempted[i]) : puts[j].priv = self
            /\ FailedAt(i) => lastErr \in {"ErrUnmarshal", "ErrPut"}

\* The record of the own identity was pushed, signed with rp.self, although
\* the keystore holds no key for it.
C12_Witness ==
    \E j \in 1..Len(puts) :
        /\ puts[j].id = SelfId
        /\ puts[j].priv = self
        /\ puts[j].res = "nil"
        /\ GetById(ks, SelfId).err # "nil"

\* C14: the watch set is empty at construction; it always equals the set
\* of identities of the AddName calls that have returned; no step removes
\* a member; a step of Run (a pass starting, going on or returning, with
\* or without error) leaves it as it is; and an AddName that returns adds
\* its identity and nothing else, which for an identity already present
\* changes nothing.
C14_WatchSetGrowsByAddName ==
    /\ entries = {}
    /\ [](entries = returned)
    /\ [][ /\ entries \subseteq entries'
           /\ (runPc' # runPc \/ attempted' # attempted \/ puts' # puts
                  \/ returns' # returns) => entries' = entries
           /\ \A c \in Callers :
                 (pc[c] = "writing" /\ pc'[c] = "idle") =>
                     /\ entries' = entries \cup {arg[c]}
                     /\ arg[c] \in entries => entries' = entries ]_vars

\* After a failed pass, with every identity registered, an AddName is
\* registering an identity that is already in the watch set.
C14_Witness ==
    /\ returns > 0
    /\ lastErr \notin {"nil", "none"}
    /\ entries = IDs
    /\ \E c \in Callers : pc[c] = "writing" /\ arg[c] \in entries

\* The pass got as far as loading the record of id: its signing key was
\* resolved and getLastVal was called.
Loaded(id) == ResolveKey(self, ks, id).err = "nil"

\* The bytes cached for id were read and do not decode.
DecodeFails(id) ==
    DsGet(ds, IpnsKey(id)).err = "nil" /\ getLastVal(ds, IpnsKey(id)).err # "nil"

\* C17: a pass that finds the record of an identity undecodable returns
\* the decode error at that identity, with no push for it; a push that
\* fails is the last push of its pass, made for the last identity the pass
\* attempted, and the pass has returned its error; the pushes before it
\* succeeded and stay; no identity is pushed twice in a pass, and an
\* identity the pass did not reach has no push.
C17_AbortKeepsPrefix ==
    /\ \A i \in 1..Len(attempted) :
          (Loaded(attempted[i]) /\ DecodeFails(attempted[i])) =>
              /\ i = Len(attempted)
              /\ PassReturned
              /\ lastErr = getLastVal(ds, IpnsKey(attempted[i])).err
              /\ PutsFor(attempted[i]) = {}
    /\ \A j \in 1..Len(puts) :
          /\ j < Len(puts) => puts[j].res = "nil"
          /\ puts[j].res = "ErrPut" =>
                /\ PassReturned
                /\ lastErr = "ErrPut"
                /\ puts[j].id = attempted[Len(attempted)]
          /\ puts[j].id \in Range(attempted)
          /\ PutsFor(puts[j].id) = {j}
    /\ \A i \in 1..Len(attempted) :
          FailedAt(i) => \A j \in PutsFor(attempted[i]) : puts[j].res # "nil"

\* A pass over both identities pushed the record of the first and returned
\* the decode error of the second.
C17_Witness ==
    /\ PassReturned
    /\ Len(attempted) = 2
    /\ DecodeFails(attempted[2])
    /\ lastErr = "ErrUnmarshal"
    /\ Len(puts) = 1
    /\ puts[1].id = attempted[1]
    /\ puts[1].res = "nil"

\* C18: a pass begins with nothing of the pass before it: no identity is
\* taken as attempted, looked up or pushed, and the set it ranges over is
\* the whole watch set; what it does with an identity is what the loop
\* body does with it, whatever the pass before returned; and a pass that
\* returns nil has attempted every identity the watch set had at its start.
C18_PassStartsAfresh ==
    [][ /\ (runPc = "select" /\ runPc' = "range") =>
              /\ attempted' = <<>>
              /\ lookups' = {}
              /\ puts' = <<>>
              /\ passStart' = entries
        /\ (runPc = "range" /\ Len(attempted') > Len(attempted)) =>
              LET id == attempted'[Len(attempted')]
                  b == Body(self, ks, ds, id)
              IN  /\ id \notin Range(attempted)
                  /\ b.do = "put" <=> Len(puts') > Len(puts)
                  /\ b.do = "return" <=> returns' > returns
        /\ (InPass /\ returns' > returns /\ lastErr' = "nil") =>
              passStart \subseteq Range(attempted') ]_vars

\* The first pass returned a push error; the second pass has attempted
\* every identity of the watch set and pushed the record of each.
C18_Witness ==
    /\ passes = 2
    /\ returns = 1
    /\ lastErr = "ErrPut"
    /\ runPc = "range"
    /\ passStart = IDs
    /\ Range(attempted) = IDs
    /\ Len(puts) = 2
    /\ \A j \in 1..Len(puts) : puts[j].res = "nil"

C13_ExpiryIsNowPlusLifetime ==
    \A j \in 1..Len(puts) :
        /\ puts[j].eol = puts[j].at + lifetime
        /\ lifetime > 0 => puts[j].eol > puts[j].at
        /\ puts[j].at >= passAt
        /\ puts[j].at <= now
        /\ j > 1 => puts[j].eol >= puts[j - 1].done + lifetime

\* A pass has pushed two records, the second an hour or more after the
\* first, with a later expiry.
C13_Witness ==
    /\ Len(puts) = 2
    /\ lifetime > 0
    /\ puts[1].at > passAt
    /\ puts[2].at > puts[1].at
    /\ puts[2].eol > puts[1].eol
    /\ puts[2].res = "nil"

Derives(dir, want) ==
    \E n \in KeyNames :
        /\ Get(dir, n).err = "nil"
        /\ IDFromPrivateKey(Get(dir, n).key) = [id |-> want, err |-> "nil"]

\* The errors of the files GetById cannot take a key and an identity from.
Failures(dir) ==
    {Get(dir, n).err : n \in {m \in KeyNames : dir[m] # NoFile /\ Get(dir, m).err # "nil"}}
        \cup {IDFromPrivateKey(Get(dir, n).key).err :
                 n \in {m \in KeyNames : /\ Get(dir, m).err = "nil"
                                          /\ IDFromPrivateKey(Get(dir, m).key).err # "nil"}}

C20_AtMostOnePutWins ==
    \A n \in KeyNames :
        /\ wins[n] <= 1
        /\ first[n] # NoKey => ks[n] = first[n]

====
